---------------------------- MODULE Spec2Model ----------------------------
(***************************************************************************)
(* The CSP engine of TennerGridCSP (src/CSP.js) and the worker that drives *)
(* it (src/unnamed/part_000): constraints, the Model (class CSP), the four *)
(* search strategies as a call-stack machine, the constraint generators    *)
(* and the randomized seeder.                                              *)
(*                                                                         *)
(* An assignment is a function from the set of bound variables to values.  *)
(* A constraint is a record [kind, variables]; kind is the class name.     *)
(***************************************************************************)
EXTENDS Integers, Sequences, FiniteSets, TLC

VARIABLES
    variables,          \* CSP.variables: the ordered variable list
    domains,            \* CSP.domains: variable -> sequence of values
    constraints,        \* CSP.constraints: variable -> sequence of constraints
    consistencyChecks,  \* CSP.consistencyChecks
    registered,         \* the constraints whose addConstraint call returned
    phase,              \* "setup", "aborted" (addConstraint threw), "solving"
    strategy,           \* the strategy whose call is on the stack, or "none"
    stack,              \* the call stack of the running strategy
    result,             \* strategy -> what its call returned
    rows,               \* the worker's global rows
    seeder,             \* the locals of randomInitialState
    evaluation          \* a constraint check asked for, and its answer

vars == <<variables, domains, constraints, consistencyChecks, registered,
          phase, strategy, stack, result, rows, seeder, evaluation>>

\* what the engine's own operations never touch
driver == <<rows, seeder, evaluation>>

-----------------------------------------------------------------------------
(* Bounds of the model *)

\* the values of the engine's domains range over -1 .. MaxVal
MaxVal == 2
\* the caller registers at most MaxCons constraints
MaxCons == 2

Values == (0 - 1)..MaxVal

-----------------------------------------------------------------------------
(* Helpers on sequences and assignments *)

EmptyAssignment == [v \in {} |-> 0]

\* mutant of Bind: the value is never stored
BindDropped(assignment, variable, value) == assignment

\* {...assignment, [variable]: value}  /  assignment[variable] = value
Bind(assignment, variable, value) ==
    [v \in (DOMAIN assignment) \cup {variable} |->
        IF v = variable THEN value ELSE assignment[v]]

\* mutant of Unbind: the binding stays
UnbindSkipped(assignment, variable) == assignment

\* delete assignment[variable]
Unbind(assignment, variable) ==
    [v \in (DOMAIN assignment) \ {variable} |-> assignment[v]]

\* mutant of FilterOut: nothing is kept
FilterEverything(seq, val) == <<>>

\* mutant of FilterOut: everything is kept
FilterNothing(seq, val) == seq

\* array.filter(v => v !== val)
RECURSIVE FilterOut(_, _)
FilterOut(seq, val) ==
    IF seq = <<>> THEN <<>>
    ELSE IF Head(seq) = val THEN FilterOut(Tail(seq), val)
         ELSE <<Head(seq)>> \o FilterOut(Tail(seq), val)

\* array.filter(v => !(v in assignment))
RECURSIVE FilterUnassigned(_, _)
FilterUnassigned(seq, assignment) ==
    IF seq = <<>> THEN <<>>
    ELSE IF Head(seq) \in DOMAIN assignment
         THEN FilterUnassigned(Tail(seq), assignment)
         ELSE <<Head(seq)>> \o FilterUnassigned(Tail(seq), assignment)

Range(seq) == {seq[i] : i \in 1..Len(seq)}

-----------------------------------------------------------------------------
(* Constraints: src/CSP.js, classes AllDifferentConstraint, ColumnSumConstraint *)

AllDifferentConstraint(vs) == [kind |-> "AllDifferent", variables |-> vs]
ColumnSumConstraint(vs) == [kind |-> "ColumnSum", variables |-> vs]

\* the loop of AllDifferentConstraint.satisfied from index i on: the first
\* variable is compared with every other assigned variable
RECURSIVE AllDifferentLoop(_, _, _)
AllDifferentLoop(vs, assignment, i) ==
    IF i > Len(vs) THEN TRUE
    ELSE IF /\ vs[i] # vs[1]
            /\ vs[i] \in DOMAIN assignment
            /\ vs[1] \in DOMAIN assignment
            /\ assignment[vs[1]] = assignment[vs[i]]
         THEN FALSE
         ELSE AllDifferentLoop(vs, assignment, i + 1)

\* mutant of AllDifferentSatisfied: every pair of the list is compared
AllDifferentPairwise(c, assignment) ==
    \A i, j \in 1..Len(c.variables) :
        /\ i # j
        /\ c.variables[i] \in DOMAIN assignment
        /\ c.variables[j] \in DOMAIN assignment
        => assignment[c.variables[i]] # assignment[c.variables[j]]

AllDifferentSatisfied(c, assignment) ==
    AllDifferentLoop(c.variables, assignment, 1)

\* the loop of ColumnSumConstraint.satisfied: <<sum, count>> over the assigned
\* variables other than targetVar, from index i on
RECURSIVE ColumnSumLoop(_, _, _, _)
ColumnSumLoop(vs, targetVar, assignment, i) ==
    IF i > Len(vs) THEN <<0, 0>>
    ELSE LET rest == ColumnSumLoop(vs, targetVar, assignment, i + 1) IN
         IF vs[i] # targetVar /\ vs[i] \in DOMAIN assignment
         THEN <<rest[1] + assignment[vs[i]], rest[2] + 1>>
         ELSE rest

\* mutant of ColumnSumSatisfied: the test sum > targetSum is left out
ColumnSumSatisfiedNoExcess(c, assignment) ==
    LET targetVar == c.variables[Len(c.variables)] IN
    IF targetVar \notin DOMAIN assignment THEN TRUE
    ELSE LET sc == ColumnSumLoop(c.variables, targetVar, assignment, 1)
         IN  ~(sc[2] = Len(c.variables) - 1 /\ sc[1] # assignment[targetVar])

ColumnSumSatisfied(c, assignment) ==
    LET targetVar == c.variables[Len(c.variables)] IN
    IF targetVar \notin DOMAIN assignment THEN TRUE
    ELSE LET targetSum == assignment[targetVar]
             sc == ColumnSumLoop(c.variables, targetVar, assignment, 1)
         IN  IF sc[2] = Len(c.variables) - 1 /\ sc[1] # targetSum THEN FALSE
             ELSE IF sc[1] > targetSum THEN FALSE
             ELSE TRUE

\* constraint.satisfied(assignment), dispatched on the constraint's class
Satisfied(c, assignment) ==
    IF c.kind = "AllDifferent" THEN AllDifferentSatisfied(c, assignment)
    ELSE ColumnSumSatisfied(c, assignment)

-----------------------------------------------------------------------------
(* class CSP: src/CSP.js *)

\* the loop of CSP.consistent over a constraint list, false on the first
\* constraint that is not satisfied
RECURSIVE ConsistentLoop(_, _)
ConsistentLoop(cs, assignment) ==
    IF cs = <<>> THEN TRUE
    ELSE IF ~Satisfied(Head(cs), assignment) THEN FALSE
         ELSE ConsistentLoop(Tail(cs), assignment)

\* mutant of consistent: only the first constraint of the list is evaluated
consistentFirstOnly(variable, assignment) ==
    \/ constraints[variable] = <<>>
    \/ Satisfied(Head(constraints[variable]), assignment)

\* mutant of countCheck: this.consistencyChecks = 1
countCheckFromOne(checks) == 1

\* this.consistencyChecks++, the first statement of CSP.consistent
countCheck(checks) == checks + 1

\* the value CSP.consistent(variable, assignment) returns; every call also
\* counts itself with countCheck, which the calling action accounts for
consistent(variable, assignment) ==
    ConsistentLoop(constraints[variable], assignment)

\* mutant of mrvReduce: the callback keeps a also when the lengths are equal
RECURSIVE mrvReduceKeepingTies(_, _)
mrvReduceKeepingTies(a, rest) ==
    IF rest = <<>> THEN a
    ELSE LET b == Head(rest) IN
         mrvReduceKeepingTies(
             IF Len(domains[a]) <= Len(domains[b]) THEN a ELSE b, Tail(rest))

\* mutant of mrv: the first listed variable is returned
mrvFirstListed(unassigned) == Head(unassigned)

\* CSP.mrv(unassigned): a left fold without initial value whose callback
\* keeps a only when this.domains[a] is strictly shorter than this.domains[b]
RECURSIVE mrvReduce(_, _)
mrvReduce(a, rest) ==
    IF rest = <<>> THEN a
    ELSE LET b == Head(rest) IN
         mrvReduce(IF Len(domains[a]) < Len(domains[b]) THEN a ELSE b,
                   Tail(rest))

mrv(unassigned) == mrvReduce(Head(unassigned), Tail(unassigned))


-----------------------------------------------------------------------------
(* CSP.forwardChecking: src/CSP.js.  The state threaded through its loops is
   st = [returned, ok, assignment, domains, checks]: whether a return
   statement was reached and its value, the assignment and domains objects
   it mutates in place, and the consistent calls it made. *)

\* for (const val of domains[neighbor]): vals is the array the loop began
\* on; domains[neighbor] is replaced, never changed in place
RECURSIVE fcValueLoop(_, _, _, _)
fcValueLoop(neighbor, vals, k, st) ==
    IF st.returned \/ k > Len(vals) THEN st
    ELSE LET val == vals[k]
             bound == Bind(st.assignment, neighbor, val)
         IN  IF ~consistent(neighbor, bound)
             THEN LET filtered == [st.domains EXCEPT
                                     ![neighbor] = FilterOut(@, val)]
                  IN  IF Len(filtered[neighbor]) = 0
                      THEN [returned |-> TRUE, ok |-> FALSE,
                            assignment |-> Unbind(bound, neighbor),
                            domains |-> filtered,
                            checks |-> countCheck(st.checks)]
                      ELSE fcValueLoop(neighbor, vals, k + 1,
                               [st EXCEPT !.assignment = Unbind(bound, neighbor),
                                          !.domains = filtered,
                                          !.checks = countCheck(@)])
             ELSE fcValueLoop(neighbor, vals, k + 1,
                      [st EXCEPT !.assignment = Unbind(bound, neighbor),
                                 !.checks = countCheck(@)])

\* for (const neighbor of constraint.variables)
RECURSIVE fcNeighborLoop(_, _, _)
fcNeighborLoop(vs, j, st) ==
    IF st.returned \/ j > Len(vs) THEN st
    ELSE IF vs[j] \notin DOMAIN st.assignment
         THEN fcNeighborLoop(vs, j + 1,
                  fcValueLoop(vs[j], st.domains[vs[j]], 1, st))
         ELSE fcNeighborLoop(vs, j + 1, st)

\* mutant of fcPropagates: every constraint of the variable is propagated
fcPropagatesAlways(c, variable) == TRUE

\* the test that selects the constraints forwardChecking propagates through
fcPropagates(c, variable) ==
    \/ c.kind = "AllDifferent" /\ c.variables[1] = variable
    \/ c.kind = "ColumnSum"

\* for (const constraint of this.constraints[variable])
RECURSIVE fcConstraintLoop(_, _, _, _)
fcConstraintLoop(cs, i, variable, st) ==
    IF st.returned \/ i > Len(cs) THEN st
    ELSE IF fcPropagates(cs[i], variable)
         THEN fcConstraintLoop(cs, i + 1, variable,
                  fcNeighborLoop(cs[i].variables, 1, st))
         ELSE fcConstraintLoop(cs, i + 1, variable, st)

\* forwardChecking(variable, assignment, domains): .ok is the value returned,
\* .assignment and .domains are the two argument objects when it returns
forwardChecking(variable, assignment, doms) ==
    LET st == fcConstraintLoop(constraints[variable], 1, variable,
                  [returned |-> FALSE, ok |-> TRUE, assignment |-> assignment,
                   domains |-> doms, checks |-> 0])
    IN  IF st.returned THEN st ELSE [st EXCEPT !.returned = TRUE, !.ok = TRUE]

-----------------------------------------------------------------------------
(* The four search strategies of class CSP as a call-stack machine.  A frame
   is one activation of a strategy inside its loop over the values of first:
   [assignment, first, idx, shared, domains].  idx is the position of the
   loop; shared says that the domains parameter is the very object
   this.domains (the default parameter of the outermost call, and always so
   for the two backtracking strategies, which read this.domains directly);
   otherwise domains holds the call's own copy. *)

StrategyOrder == <<"backtrackingSearch", "backtrackingSearchWithMRV",
                   "forwardCheckingSearch", "forwardCheckingSearchWithMRV">>

Strategies == Range(StrategyOrder)

usesForwardChecking(s) ==
    s \in {"forwardCheckingSearch", "forwardCheckingSearchWithMRV"}

usesMRV(s) ==
    s \in {"backtrackingSearchWithMRV", "forwardCheckingSearchWithMRV"}

NoDomains == [v \in {} |-> <<>>]

Unset == [status |-> "unset", assignment |-> EmptyAssignment]
Null == [status |-> "null", assignment |-> EmptyAssignment]
Found(assignment) == [status |-> "found", assignment |-> assignment]

\* Object.keys(assignment).length === this.variables.length
isComplete(assignment) == Cardinality(DOMAIN assignment) = Len(variables)

\* the variable a call of strategy s binds next: unassigned[0], or
\* this.mrv(unassigned)
selectVariable(s, assignment) ==
    LET unassigned == FilterUnassigned(variables, assignment) IN
    IF usesMRV(s) THEN mrv(unassigned) ELSE Head(unassigned)

\* the domains object a frame reads
frameDomains(f) == IF f.shared THEN domains ELSE f.domains

\* mutant of spreadDomains: localDomain = domains, the same object
spreadDomainsAliased(f) == [shared |-> f.shared, domains |-> frameDomains(f)]

\* const localDomain = {...domains}: a new object with the same entries
spreadDomains(f) == [shared |-> FALSE, domains |-> frameDomains(f)]

\* a call s(assignment, doms) made with stk as the callers' frames: a
\* complete assignment is returned as it is, and every caller returns it in
\* turn; otherwise the call enters its loop
Invoke(s, assignment, shared, doms, stk) ==
    IF isComplete(assignment)
    THEN /\ stack' = <<>>
         /\ strategy' = "none"
         /\ result' = [result EXCEPT ![s] = Found(assignment)]
    ELSE /\ stack' = Append(stk, [assignment |-> assignment,
                                  first |-> selectVariable(s, assignment),
                                  idx |-> 1,
                                  shared |-> shared,
                                  domains |-> IF shared THEN NoDomains ELSE doms])
         /\ strategy' = s
         /\ UNCHANGED result

\* the loop moves on to the next value of the top frame
NextValue(stk) ==
    [stk EXCEPT ![Len(stk)] = [@ EXCEPT !.idx = @ + 1]]

\* the caller starts strategy s from the default empty assignment; it runs
\* the strategies on its Model one after the other, in the order of
\* StrategyOrder
Start(s) ==
    /\ phase \in {"setup", "ready", "solving"}
    /\ strategy = "none"
    /\ result[s] = Unset
    /\ \A i \in 1..Len(StrategyOrder) :
          StrategyOrder[i] = s =>
              \A j \in 1..(i - 1) : result[StrategyOrder[j]] # Unset
    /\ phase' = "solving"
    /\ Invoke(s, EmptyAssignment, TRUE, NoDomains, <<>>)
    /\ UNCHANGED <<variables, domains, constraints, consistencyChecks,
                   registered, driver>>

\* the loop of the top frame has a next value / is over
LoopHasValue ==
    /\ strategy # "none"
    /\ stack # <<>>
    /\ stack[Len(stack)].idx
          <= Len(frameDomains(stack[Len(stack)])[stack[Len(stack)].first])

LoopIsOver ==
    /\ strategy # "none"
    /\ stack # <<>>
    /\ stack[Len(stack)].idx
          > Len(frameDomains(stack[Len(stack)])[stack[Len(stack)].first])

\* one iteration of the loop over the values of first, in the top frame
TryValue ==
    /\ LoopHasValue
    /\ LET f == stack[Len(stack)]
           values == frameDomains(f)[f.first]
       IN
       /\ LET localAssignment == Bind(f.assignment, f.first, values[f.idx]) IN
          IF ~consistent(f.first, localAssignment)
          THEN /\ consistencyChecks' = countCheck(consistencyChecks)
               /\ stack' = NextValue(stack)
               /\ UNCHANGED <<domains, strategy, result>>
          ELSE IF ~usesForwardChecking(strategy)
          THEN /\ consistencyChecks' = countCheck(consistencyChecks)
               /\ Invoke(strategy, localAssignment, TRUE, NoDomains, stack)
               /\ UNCHANGED domains
          ELSE LET localDomain == spreadDomains(f)
                   fc == forwardChecking(f.first, localAssignment,
                                         localDomain.domains)
               IN  /\ consistencyChecks' =
                          countCheck(consistencyChecks) + fc.checks
                   \* forwardChecking writes into the object it was given
                   /\ domains' = IF localDomain.shared THEN fc.domains
                                 ELSE domains
                   /\ IF fc.ok
                      THEN Invoke(strategy, fc.assignment, localDomain.shared,
                                  fc.domains, stack)
                      ELSE /\ stack' = NextValue(stack)
                           /\ UNCHANGED <<strategy, result>>
    /\ UNCHANGED <<variables, constraints, registered, phase, driver>>

\* the loop of the top frame is over: the call returns null, and its caller
\* goes on with its next value
ReturnNull ==
    /\ LoopIsOver
    /\ IF Len(stack) = 1
       THEN /\ stack' = <<>>
            /\ result' = [result EXCEPT ![strategy] = Null]
            /\ strategy' = "none"
       ELSE /\ stack' = NextValue(SubSeq(stack, 1, Len(stack) - 1))
            /\ UNCHANGED <<result, strategy>>
    /\ UNCHANGED <<variables, domains, constraints, consistencyChecks,
                   registered, phase, driver>>

-----------------------------------------------------------------------------
(* Setup: CSP.addConstraint *)

\* mutant of addConstraintLoop: a variable that is not in the Model is passed
\* over
RECURSIVE addConstraintLoopSkipping(_, _, _)
addConstraintLoopSkipping(c, i, st) ==
    IF i > Len(c.variables) THEN st
    ELSE IF c.variables[i] \notin Range(variables)
         THEN addConstraintLoopSkipping(c, i + 1, st)
         ELSE addConstraintLoopSkipping(c, i + 1,
                  [st EXCEPT !.constraints[c.variables[i]] = Append(@, c)])

\* the loop of addConstraint over constraint.variables from index i on:
\* each variable of the Model gets the constraint pushed on its list, and a
\* variable that is not in the Model throws, which leaves the earlier pushes
RECURSIVE addConstraintLoop(_, _, _)
addConstraintLoop(c, i, st) ==
    IF i > Len(c.variables) THEN st
    ELSE IF c.variables[i] \notin Range(variables)
         THEN [st EXCEPT !.threw = TRUE]
         ELSE addConstraintLoop(c, i + 1,
                  [st EXCEPT !.constraints[c.variables[i]] = Append(@, c)])

\* the variable lists the caller builds constraints over
Vars == <<"a", "b", "c">>
Foreign == "z"

VariableLists ==
    <<<<"a", "b">>, <<"b", "c">>, <<"c", "a">>,
      <<"a", "b", "c">>, <<"b", "c", "a">>, <<"c", "a", "b">>,
      <<"a", Foreign>>, <<Foreign, "a">>>>

\* the constraints the caller chooses from, and registers in this order
ConstraintPool ==
    [i \in 1..Len(VariableLists) |-> AllDifferentConstraint(VariableLists[i])]
        \o [i \in 1..Len(VariableLists) |-> ColumnSumConstraint(VariableLists[i])]

PoolIndex(c) == CHOOSE i \in 1..Len(ConstraintPool) : ConstraintPool[i] = c

addConstraint(c) ==
    /\ phase = "setup"
    /\ Len(registered) < MaxCons
    /\ \A k \in 1..Len(registered) : PoolIndex(registered[k]) < PoolIndex(c)
    /\ LET st == addConstraintLoop(c, 1, [threw |-> FALSE,
                                          constraints |-> constraints])
       IN  /\ constraints' = st.constraints
           /\ phase' = IF st.threw THEN "aborted" ELSE "setup"
           /\ registered' = IF st.threw THEN registered
                            ELSE Append(registered, c)
    /\ UNCHANGED <<variables, domains, consistencyChecks, strategy, stack,
                   result, driver>>

-----------------------------------------------------------------------------
(* The engine under a caller that builds a Model, registers constraints and
   runs the strategies *)

\* the domains the caller gives a variable: one pinned value, or every value
DomainPool ==
    {<<v>> : v \in Values} \cup {[i \in 1..(MaxVal + 2) |-> i - 2]}

\* new CSP(variables, doms), every variable having a domain: the fields the
\* constructor sets, and nothing running
Constructed(vs, doms) ==
    /\ variables = vs
    /\ domains = doms
    /\ constraints = [v \in Range(vs) |-> <<>>]
    /\ consistencyChecks = 0
    /\ registered = <<>>
    /\ phase = "setup"
    /\ strategy = "none"
    /\ stack = <<>>
    /\ result = [s \in Strategies |-> Unset]

SeederIdle == [pc |-> "idle"]
NoEvaluation == [done |-> FALSE]

Init ==
    /\ \E doms \in [Range(Vars) -> DomainPool] : Constructed(Vars, doms)
    /\ rows = 3
    /\ seeder = SeederIdle
    /\ evaluation = NoEvaluation

Next ==
    \/ \E c \in Range(ConstraintPool) : addConstraint(c)
    \/ \E s \in Strategies : Start(s)
    \/ TryValue
    \/ ReturnNull

Spec == Init /\ [][Next]_vars

-----------------------------------------------------------------------------
(* The grid: src/main.js (createVariables, createDomains,
   initializeVariablesAndDomains) and src/unnamed/part_000 (the generators
   and the message handler).  The code fixes COLUMNS = 10 and the digits
   0..9; the model keeps the layout and the formulas and scales both down:
   COLUMNS columns, and digits 0..d chosen by the caller. *)

COLUMNS == 2
\* the caller's grids have 1..MaxRows rows and digits 0..d, d <= MaxDigit
MaxRows == 3
MaxDigit == 3

DigitNames == <<"0", "1", "2", "3", "4", "5", "6", "7", "8", "9">>

cellName(i, j) == DigitNames[i + 1] \o "," \o DigitNames[j + 1]
targetName(j) == "t" \o DigitNames[j + 1]

\* variable.startsWith("t")
startsWithT(v) == v \in {targetName(j - 1) : j \in 1..Len(DigitNames)}

\* createVariables(): the cells in row-major order, then one target a column
createVariables(r) ==
    [k \in 1..(r * COLUMNS + COLUMNS) |->
        IF k <= r * COLUMNS
        THEN cellName((k - 1) \div COLUMNS, (k - 1) % COLUMNS)
        ELSE targetName(k - r * COLUMNS - 1)]

\* createDomains(): <<gridCellsDomain, targetCellsDomain>> for r rows, with
\* d in the place of the digit 9
createDomains(r, d) ==
    LET minValue == (r \div 2) * 1
        maxValue == ((r + 1) \div 2) * d + (r \div 2) * (d - 1)
    IN  <<[i \in 1..(d + 1) |-> i - 1],
          [i \in 1..(maxValue - minValue + 1) |-> minValue + i - 1]>>

\* initializeVariablesAndDomains() on a grid without predefined values
initializeDomains(vs, r, d) ==
    [v \in Range(vs) |->
        IF ~startsWithT(v) THEN createDomains(r, d)[1]
        ELSE createDomains(r, d)[2]]

\* mutant of genColSumConstraint: the inner loop stops one short (j < rows)
genColSumConstraintShort(vs, r) ==
    [i \in 1..COLUMNS |->
        ColumnSumConstraint([j \in 1..r |-> vs[(j - 1) * COLUMNS + (i - 1) + 1]])]

\* genColSumConstraint: the constraints it adds, in order
genColSumConstraint(vs, r) ==
    [i \in 1..COLUMNS |->
        ColumnSumConstraint(
            [j \in 1..(r + 1) |-> vs[(j - 1) * COLUMNS + (i - 1) + 1]])]

\* the loop "add all cells in the same row" of genAllDiffConstraint, from k on
RECURSIVE rowMates(_, _, _, _)
rowMates(vs, i, j, k) ==
    IF k >= COLUMNS THEN <<>>
    ELSE (IF k # j THEN <<vs[i * COLUMNS + k + 1]>> ELSE <<>>)
             \o rowMates(vs, i, j, k + 1)

\* currAllDiffVariables of genAllDiffConstraint for the cell (i, j)
allDiffVariables(vs, r, i, j) ==
    LET at(a, b) == vs[a * COLUMNS + b + 1]
        when(cond, a, b) == IF cond THEN <<at(a, b)>> ELSE <<>>
    IN  <<at(i, j)>>
        \o when(i > 0, i - 1, j)
        \o when(i < r - 1, i + 1, j)
        \o when(i > 0 /\ j > 0, i - 1, j - 1)
        \o when(i > 0 /\ j < COLUMNS - 1, i - 1, j + 1)
        \o when(i < r - 1 /\ j > 0, i + 1, j - 1)
        \o when(i < r - 1 /\ j < COLUMNS - 1, i + 1, j + 1)
        \o rowMates(vs, i, j, 0)

\* genAllDiffConstraint: the constraints it adds, in order
genAllDiffConstraint(vs, r) ==
    [n \in 1..(r * COLUMNS) |->
        AllDifferentConstraint(
            allDiffVariables(vs, r, (n - 1) \div COLUMNS, (n - 1) % COLUMNS))]

\* csp.addConstraint(c) for every c of cs, in order, none of them throwing
RECURSIVE addAll(_, _)
addAll(cs, index) ==
    IF cs = <<>> THEN index
    ELSE addAll(Tail(cs),
                addConstraintLoop(Head(cs), 1,
                    [threw |-> FALSE, constraints |-> index]).constraints)

\* the message handler up to its switch: rows is set from the variable list
\* and the two generators fill the index
Generate ==
    /\ phase = "setup"
    /\ seeder.pc = "idle"
    /\ LET r == (Len(variables) \div COLUMNS) - 1
           cs == genColSumConstraint(variables, r)
                     \o genAllDiffConstraint(variables, r)
       IN  /\ rows' = r
           /\ constraints' = addAll(cs, constraints)
           /\ registered' = cs
    /\ phase' = "ready"
    /\ UNCHANGED <<variables, domains, consistencyChecks, strategy, stack,
                   result, seeder, evaluation>>

\* the worker has received variables and domains and constructed its CSP
GridInit ==
    /\ \E r \in 1..MaxRows, d \in (COLUMNS - 1)..MaxDigit :
          /\ Constructed(createVariables(r),
                         initializeDomains(createVariables(r), r, d))
          /\ seeder = [pc |-> "idle",
                       gridCellsDomain |-> createDomains(r, d)[1]]
    /\ rows = 3
    /\ evaluation = NoEvaluation

\* the assignments that give every variable of vs a value of its Domain
RECURSIVE AssignmentsOver(_)
AssignmentsOver(vs) ==
    IF vs = <<>> THEN {EmptyAssignment}
    ELSE {Bind(a, Head(vs), x) :
             a \in AssignmentsOver(Tail(vs)), x \in Range(domains[Head(vs)])}

\* the complete assignments of digits to cells and sums to targets
GridAssignments == AssignmentsOver(variables)

\* every registered constraint is asked about a complete assignment
ValidateAssignment ==
    /\ phase = "ready"
    /\ evaluation = NoEvaluation
    /\ \E a \in GridAssignments :
          evaluation' = [done |-> TRUE,
                         assignment |-> a,
                         value |-> \A k \in 1..Len(registered) :
                                       Satisfied(registered[k], a)]
    /\ UNCHANGED <<variables, domains, constraints, consistencyChecks,
                   registered, phase, strategy, stack, result, rows, seeder>>

GridNext ==
    \/ Generate
    \/ ValidateAssignment

GridSpec == GridInit /\ [][GridNext]_vars

-----------------------------------------------------------------------------
(* randomInitialState(csp, gridCellsDomain, targetCellsDomain):
   src/unnamed/part_000.  seeder holds the locals of the activation that is
   running: pc, assignment, the position i of the loop over the grid
   variables, savedDomains, and the number of retries made so far.  A retry
   is the tail call of the function on itself, so the activation that
   returns hands its value straight to the message handler. *)

\* the seeder retries at most MaxRetries times in the model
MaxRetries == 1
\* and is asked to seed grids of at most MaxSeededRows rows
MaxSeededRows == 2

\* csp.variables.filter(variable => !variable.startsWith("t"))
RECURSIVE gridVariables(_)
gridVariables(vs) ==
    IF vs = <<>> THEN <<>>
    ELSE IF ~startsWithT(Head(vs)) THEN <<Head(vs)>> \o gridVariables(Tail(vs))
         ELSE gridVariables(Tail(vs))

\* gridCellsDomain.sort(() => 0.5 - Math.random()): some order of the
\* array.  The sort is in place, but the array is read again only by the
\* next sort, so the order it is left in is not kept in the state.
Shuffles(seq) ==
    {p \in [1..Len(seq) -> Range(seq)] :
        \A i, j \in 1..Len(seq) : i # j => p[i] # p[j]}

\* mutant of firstConsistent: the first value is taken without the test
firstShuffled(gridVariable, assignment, shuffled, k) ==
    <<TRUE, shuffled[k], k>>

\* the loop over shuffledDomain from index k on: <<found, value, calls>>,
\* the first value that keeps the assignment consistent for gridVariable and
\* the number of consistent calls made
RECURSIVE firstConsistent(_, _, _, _)
firstConsistent(gridVariable, assignment, shuffled, k) ==
    IF k > Len(shuffled) THEN <<FALSE, 0, k - 1>>
    ELSE IF consistent(gridVariable, Bind(assignment, gridVariable, shuffled[k]))
         THEN <<TRUE, shuffled[k], k>>
         ELSE firstConsistent(gridVariable, assignment, shuffled, k + 1)

\* the handler calls randomInitialState
SeederCall ==
    /\ phase = "ready"
    /\ seeder.pc = "idle"
    /\ seeder' = [seeder EXCEPT !.pc = "prefill"] @@
                 [assignment |-> EmptyAssignment, i |-> 1,
                  savedDomains |-> NoDomains, retries |-> 0]
    /\ phase' = "solving"
    /\ UNCHANGED <<variables, domains, constraints, consistencyChecks,
                   registered, strategy, stack, result, rows, evaluation>>

\* step 1, Math.random() >= 0.5: the grid variable is passed over
SeederSkip ==
    /\ seeder.pc = "prefill"
    /\ seeder.i <= Len(gridVariables(variables))
    /\ seeder' = [seeder EXCEPT !.i = @ + 1]
    /\ UNCHANGED <<variables, domains, constraints, consistencyChecks,
                   registered, phase, strategy, stack, result, rows, evaluation>>

\* step 1, Math.random() < 0.5: the grid variable gets the first value of
\* the shuffled gridCellsDomain that is consistent, if there is one
SeederProbe ==
    /\ seeder.pc = "prefill"
    /\ seeder.i <= Len(gridVariables(variables))
    /\ \E shuffled \in Shuffles(seeder.gridCellsDomain) :
          LET gridVariable == gridVariables(variables)[seeder.i]
              hit == firstConsistent(gridVariable, seeder.assignment,
                                     shuffled, 1)
          IN  /\ consistencyChecks' = consistencyChecks + hit[3]
              /\ seeder' = [seeder EXCEPT
                              !.i = @ + 1,
                              !.assignment =
                                  IF hit[1] THEN Bind(@, gridVariable, hit[2])
                                  ELSE @]
    /\ UNCHANGED <<variables, domains, constraints, registered, phase,
                   strategy, stack, result, rows, evaluation>>

\* mutant of snapshotDomains: savedDomains = csp.domains, the same object,
\* which the narrowing then changes
snapshotAliased(doms, narrowed) == narrowed

\* const savedDomains = {...csp.domains}: a new object with the entries the
\* Domains have before the narrowing
snapshotDomains(doms, narrowed) == doms

\* steps 2 to 4: the Domains are saved, those of the variables of the
\* assignment are narrowed to their value, and the search is called
SeederSearch ==
    /\ seeder.pc = "prefill"
    /\ seeder.i > Len(gridVariables(variables))
    /\ LET narrowed == [v \in DOMAIN domains |->
                          IF v \in DOMAIN seeder.assignment
                          THEN <<seeder.assignment[v]>> ELSE domains[v]]
       IN  /\ domains' = narrowed
           /\ seeder' = [seeder EXCEPT
                           !.pc = "search",
                           !.savedDomains = snapshotDomains(domains, narrowed)]
    /\ Invoke("forwardCheckingSearchWithMRV", seeder.assignment, TRUE,
              NoDomains, <<>>)
    /\ UNCHANGED <<variables, constraints, consistencyChecks, registered,
                   phase, rows, evaluation>>

\* step 5: the search returned null; the Domains are put back and the
\* function calls itself
SeederRetry ==
    /\ seeder.pc = "search"
    /\ strategy = "none"
    /\ result["forwardCheckingSearchWithMRV"] = Null
    /\ seeder.retries < MaxRetries
    /\ domains' = seeder.savedDomains
    /\ seeder' = [seeder EXCEPT !.pc = "prefill",
                                !.assignment = EmptyAssignment,
                                !.i = 1,
                                !.savedDomains = NoDomains,
                                !.retries = @ + 1]
    /\ result' = [result EXCEPT !["forwardCheckingSearchWithMRV"] = Unset]
    /\ UNCHANGED <<variables, constraints, consistencyChecks, registered,
                   phase, strategy, stack, rows, evaluation>>

\* mutant of mergeTargets: nothing of the result is added
mergeNothing(assignment, found) == assignment

\* mutant of mergeTargets: every variable of the result is added
mergeEverything(assignment, found) ==
    [v \in DOMAIN assignment \cup DOMAIN found |->
        IF v \in DOMAIN found THEN found[v] ELSE assignment[v]]

\* the loop "for (const variable in result)" of step 6: the targets of the
\* result are added to the assignment
mergeTargets(assignment, found) ==
    [v \in DOMAIN assignment \cup {w \in DOMAIN found : startsWithT(w)} |->
        IF v \in DOMAIN found /\ startsWithT(v) THEN found[v]
        ELSE assignment[v]]

\* step 6: the search returned an assignment; the seeder returns its own
SeederReturn ==
    /\ seeder.pc = "search"
    /\ strategy = "none"
    /\ result["forwardCheckingSearchWithMRV"].status = "found"
    /\ seeder' = [seeder EXCEPT
                    !.pc = "returned",
                    !.assignment =
                        mergeTargets(@, result["forwardCheckingSearchWithMRV"].assignment)]
    /\ UNCHANGED <<variables, domains, constraints, consistencyChecks,
                   registered, phase, strategy, stack, result, rows, evaluation>>

SeederNext ==
    \/ Generate
    \/ SeederCall
    \/ SeederSkip
    \/ SeederProbe
    \/ SeederSearch
    \/ TryValue
    \/ ReturnNull
    \/ SeederRetry
    \/ SeederReturn

\* the worker has received a "randomize" message
SeederInit ==
    /\ GridInit
    /\ Len(variables) <= (MaxSeededRows + 1) * COLUMNS

SeederSpec == SeederInit /\ [][SeederNext]_vars

-----------------------------------------------------------------------------
(* Constraint checks on their own: satisfied(assignment) of one constraint *)

\* the variable lists of the constraints checked: no variable listed twice
RECURSIVE InjectiveSeqs(_, _)
InjectiveSeqs(S, n) ==
    IF n = 0 THEN {<<>>}
    ELSE {q \in {<<x>> \o p : x \in S, p \in InjectiveSeqs(S, n - 1)} :
             \A i, j \in 1..Len(q) : i # j => q[i] # q[j]}

SatisfiedInit ==
    /\ \E doms \in [Range(Vars) -> {<<0>>}] : Constructed(Vars, doms)
    /\ rows = 3
    /\ seeder = SeederIdle
    /\ \E n \in 1..Len(Vars) :
       \E vs \in InjectiveSeqs(Range(Vars), n) :
       \E kind \in {"AllDifferent", "ColumnSum"} :
       \E bound \in SUBSET Range(Vars) :
       \E a \in [bound -> Values] :
          evaluation = [constraint |-> [kind |-> kind, variables |-> vs],
                        assignment |-> a,
                        done |-> FALSE,
                        value |-> FALSE]

EvaluateSatisfied ==
    /\ ~evaluation.done
    /\ evaluation' = [evaluation EXCEPT
                        !.done = TRUE,
                        !.value = Satisfied(evaluation.constraint,
                                            evaluation.assignment)]
    /\ UNCHANGED <<variables, domains, constraints, consistencyChecks,
                   registered, phase, strategy, stack, result, rows, seeder>>

SatisfiedSpec == SatisfiedInit /\ [][EvaluateSatisfied]_vars

-----------------------------------------------------------------------------
(* CSP.forwardChecking on its own: the caller builds a Model, registers
   constraints and calls forwardChecking(variable, assignment, domains) once,
   with an assignment that binds variable and a copy of the Model's Domains,
   as the two forward-checking strategies do. *)

\* the assignments that bind variable and any of the other variables, each to
\* a value of its Domain
AssignmentsBinding(variable) ==
    UNION {{a \in [keys \cup {variable} -> Values] :
               \A v \in DOMAIN a : a[v] \in Range(domains[v])} :
           keys \in SUBSET Range(variables)}

CallForwardChecking ==
    /\ phase = "setup"
    /\ \E variable \in Range(variables) :
       \E a \in AssignmentsBinding(variable) :
          LET fc == forwardChecking(variable, a, domains) IN
          /\ evaluation' = [done |-> TRUE,
                            variable |-> variable,
                            assignment |-> a,
                            ok |-> fc.ok,
                            assignmentOut |-> fc.assignment,
                            domainsOut |-> fc.domains,
                            checks |-> fc.checks]
          /\ consistencyChecks' = consistencyChecks + fc.checks
    /\ phase' = "checked"
    /\ UNCHANGED <<variables, domains, constraints, registered, strategy,
                   stack, result, rows, seeder>>

ForwardCheckNext ==
    \/ \E c \in Range(ConstraintPool) : addConstraint(c)
    \/ CallForwardChecking

ForwardCheckSpec == Init /\ [][ForwardCheckNext]_vars

-----------------------------------------------------------------------------
(* A ColumnSum check before and after more variables are bound: what the
   strategies do between two consistent calls on the same constraint. *)

\* the assignments that bind the variables of a as a does, and some of the
\* others to values of their Domains
ExtensionsOf(a, doms) ==
    UNION {{[v \in DOMAIN a \cup more |->
                IF v \in DOMAIN a THEN a[v] ELSE doms[v][pick[v]]] :
              pick \in {f \in [more -> 1..(MaxVal + 2)] :
                           \A v \in more : f[v] <= Len(doms[v])}} :
           more \in SUBSET (DOMAIN doms \ DOMAIN a) \ {{}}}

ExtensionInit ==
    /\ \E doms \in [Range(Vars) -> DomainPool] : Constructed(Vars, doms)
    /\ rows = 3
    /\ seeder = SeederIdle
    /\ \E n \in 1..Len(Vars) :
       \E vs \in InjectiveSeqs(Range(Vars), n) :
       \E bound \in SUBSET Range(Vars) \ {Range(Vars)} :
       \E a \in [bound -> Values] :
       \E b \in ExtensionsOf(a, domains) :
          evaluation = [constraint |-> ColumnSumConstraint(vs),
                        assignment |-> a,
                        extension |-> b,
                        done |-> FALSE,
                        value |-> FALSE,
                        extended |-> FALSE]

\* satisfied(assignment) is called on the assignment and on its extension
EvaluateExtension ==
    /\ ~evaluation.done
    /\ evaluation' = [evaluation EXCEPT
                        !.done = TRUE,
                        !.value = Satisfied(evaluation.constraint,
                                            evaluation.assignment),
                        !.extended = Satisfied(evaluation.constraint,
                                               evaluation.extension)]
    /\ UNCHANGED <<variables, domains, constraints, consistencyChecks,
                   registered, phase, strategy, stack, result, rows, seeder>>

ExtensionSpec == ExtensionInit /\ [][EvaluateExtension]_vars

-----------------------------------------------------------------------------
(* The strategies called with an assignment of the caller's: the first
   parameter of each strategy, which defaults to {}. *)

\* the caller passes values 0..MaxSupplied
MaxSupplied == 1

\* the assignments a caller passes: some or all variables, values of its own
SuppliedAssignments ==
    UNION {[keys -> 0..MaxSupplied] : keys \in SUBSET Range(Vars) \ {{}}}

\* the caller starts strategy s from the assignment it has chosen
StartFrom(s) ==
    /\ phase \in {"setup", "solving"}
    /\ strategy = "none"
    /\ result[s] = Unset
    /\ \A i \in 1..Len(StrategyOrder) :
          StrategyOrder[i] = s =>
              \A j \in 1..(i - 1) : result[StrategyOrder[j]] # Unset
    /\ phase' = "solving"
    /\ Invoke(s, evaluation.supplied, TRUE, NoDomains, <<>>)
    /\ UNCHANGED <<variables, domains, constraints, consistencyChecks,
                   registered, driver>>

SuppliedInit ==
    /\ \E doms \in [Range(Vars) -> DomainPool] : Constructed(Vars, doms)
    /\ rows = 3
    /\ seeder = SeederIdle
    /\ \E a \in SuppliedAssignments :
          evaluation = [done |-> FALSE, supplied |-> a]

SuppliedNext ==
    \/ \E c \in Range(ConstraintPool) : addConstraint(c)
    \/ \E s \in Strategies : StartFrom(s)
    \/ TryValue
    \/ ReturnNull

SuppliedSpec == SuppliedInit /\ [][SuppliedNext]_vars

-----------------------------------------------------------------------------
(* A grid the user has filled in but for one cell: every cell and target with
   a text gets the Domain of that one value (initializeVariablesAndDomains),
   the constraints are generated and the strategies are run. *)

\* the grids of the filled-in scenario have at most MaxPinnedRows rows
MaxPinnedRows == 2

\* mutant of initializePinned: the text of a cell is ignored
initializeUnpinned(vs, r, d, text) == initializeDomains(vs, r, d)

\* initializeVariablesAndDomains() on a grid in which the cells of DOMAIN text
\* show a number
initializePinned(vs, r, d, text) ==
    [v \in Range(vs) |->
        IF v \in DOMAIN text THEN <<text[v]>>
        ELSE initializeDomains(vs, r, d)[v]]

PinnedInit ==
    /\ \E r \in 1..MaxPinnedRows, d \in (COLUMNS - 1)..MaxDigit :
       \E missing \in Range(gridVariables(createVariables(r))) :
       \E text \in [Range(createVariables(r)) \ {missing} ->
                       0..(MaxPinnedRows * MaxDigit)] :
          /\ \A v \in DOMAIN text :
                text[v] \in Range(initializeDomains(createVariables(r), r, d)[v])
          /\ Constructed(createVariables(r),
                         initializePinned(createVariables(r), r, d, text))
          /\ seeder = [pc |-> "idle",
                       gridCellsDomain |-> createDomains(r, d)[1]]
          /\ evaluation = [done |-> FALSE, missing |-> missing, text |-> text]
    /\ rows = 3

PinnedNext ==
    \/ Generate
    \/ \E s \in Strategies : phase # "setup" /\ Start(s)
    \/ TryValue
    \/ ReturnNull

PinnedSpec == PinnedInit /\ [][PinnedNext]_vars

-----------------------------------------------------------------------------
(* The seeder called on a Model built from a grid in which the user has
   typed into the first MaxTyped cells: the message carries the Domains of
   initializeVariablesAndDomains and the two arrays of createDomains. *)

MaxTyped == 1

TypedSeederInit ==
    /\ \E r \in 1..MaxSeededRows, d \in (COLUMNS - 1)..MaxDigit :
       \E text \in [{createVariables(r)[k] : k \in 1..MaxTyped} -> 0..MaxDigit] :
          /\ \A v \in DOMAIN text : text[v] <= d
          /\ Constructed(createVariables(r),
                         initializePinned(createVariables(r), r, d, text))
          /\ seeder = [pc |-> "idle",
                       gridCellsDomain |-> createDomains(r, d)[1]]
    /\ rows = 3
    /\ evaluation = NoEvaluation

TypedSeederSpec == TypedSeederInit /\ [][SeederNext]_vars

-----------------------------------------------------------------------------
(* The seeder called on a Model built from a grid of at most MaxTypedRows
   rows and digits up to MaxTypedDigit at most, in which the user has typed
   into the first cell and into the first target: the pinned values may
   leave the Model without a solution. *)

MaxTypedRows == 2
MaxTypedDigit == 2

TypedTargetSeederInit ==
    /\ \E r \in 1..MaxTypedRows, d \in (COLUMNS - 1)..MaxTypedDigit :
       \E text \in [{createVariables(r)[1], targetName(0)} ->
                       0..(MaxTypedRows * MaxTypedDigit)] :
          /\ \A v \in DOMAIN text :
                text[v] \in Range(initializeDomains(createVariables(r), r, d)[v])
          /\ Constructed(createVariables(r),
                         initializePinned(createVariables(r), r, d, text))
          /\ seeder = [pc |-> "idle",
                       gridCellsDomain |-> createDomains(r, d)[1]]
          /\ evaluation = [done |-> FALSE, text |-> text]
    /\ rows = 3

TypedTargetSeederSpec == TypedTargetSeederInit /\ [][SeederNext]_vars

-----------------------------------------------------------------------------
(* Setup on its own: new CSP(variables, domains), then addConstraint.  Before
   the constructor has run, evaluation holds its two arguments. *)

\* the loop of the constructor from index i on: every variable gets an empty
\* constraint list, and a variable without an entry in domains throws
RECURSIVE constructorLoop(_, _, _, _)
constructorLoop(vs, doms, i, st) ==
    IF i > Len(vs) THEN st
    ELSE LET listed == [st EXCEPT !.constraints = Bind(@, vs[i], <<>>)] IN
         IF vs[i] \notin DOMAIN doms THEN [listed EXCEPT !.threw = TRUE]
         ELSE constructorLoop(vs, doms, i + 1, listed)

\* the Domain mappings the caller passes: entries for some of the variables
\* and possibly for a name that is no variable
DomainMappings ==
    UNION {[keys -> {<<0>>, <<0, 1>>}] :
              keys \in SUBSET (Range(Vars) \cup {Foreign})}

SetupInit ==
    /\ variables = <<>>
    /\ domains = NoDomains
    /\ constraints = NoDomains
    /\ consistencyChecks = 0
    /\ registered = <<>>
    /\ phase = "new"
    /\ strategy = "none"
    /\ stack = <<>>
    /\ result = [s \in Strategies |-> Unset]
    /\ rows = 3
    /\ seeder = SeederIdle
    /\ \E doms \in DomainMappings :
          evaluation = [done |-> FALSE, variables |-> Vars, domains |-> doms]

\* new CSP(variables, domains): when the constructor throws there is no Model
\* to register constraints on
construct ==
    /\ phase = "new"
    /\ LET st == constructorLoop(evaluation.variables, evaluation.domains, 1,
                                 [threw |-> FALSE, constraints |-> NoDomains])
       IN  /\ variables' = evaluation.variables
           /\ domains' = evaluation.domains
           /\ constraints' = st.constraints
           /\ phase' = IF st.threw THEN "aborted" ELSE "setup"
    /\ consistencyChecks' = 0
    /\ evaluation' = [evaluation EXCEPT !.done = TRUE]
    /\ UNCHANGED <<registered, strategy, stack, result, rows, seeder>>

SetupNext ==
    \/ construct
    \/ \E c \in Range(ConstraintPool) : addConstraint(c)

SetupSpec == SetupInit /\ [][SetupNext]_vars

-----------------------------------------------------------------------------
(* CSP.mrv on its own: mrv(unassigned) of a Model whose Domains have one to
   MaxSize values *)

\* the longest Domain of the Models mrv is called on
MaxSize == 3

\* Domains of every size up to MaxSize, and two of them of size one
SizedDomains ==
    {[i \in 1..n |-> i - 1] : n \in 1..MaxSize} \cup {<<1>>}

MrvInit ==
    /\ \E doms \in [Range(Vars) -> SizedDomains] : Constructed(Vars, doms)
    /\ rows = 3
    /\ seeder = SeederIdle
    /\ \E n \in 1..Len(Vars) :
       \E unassigned \in InjectiveSeqs(Range(Vars), n) :
          evaluation = [unassigned |-> unassigned,
                        done |-> FALSE,
                        value |-> Head(unassigned)]

EvaluateMrv ==
    /\ ~evaluation.done
    /\ evaluation' = [evaluation EXCEPT
                        !.done = TRUE,
                        !.value = mrv(evaluation.unassigned)]
    /\ UNCHANGED <<variables, domains, constraints, consistencyChecks,
                   registered, phase, strategy, stack, result, rows, seeder>>

MrvSpec == MrvInit /\ [][EvaluateMrv]_vars

-----------------------------------------------------------------------------
(* What the claims speak of *)

\* every constraint the caller registered is satisfied by the assignment
SatisfiesAll(assignment) ==
    \A k \in 1..Len(registered) : Satisfied(registered[k], assignment)

\* the complete assignments that take every variable's value from its Domain
CompleteAssignments ==
    {a \in [Range(variables) -> Values] :
        \A v \in Range(variables) : a[v] \in Range(domains[v])}

SolutionExists == \E a \in CompleteAssignments : SatisfiesAll(a)

Returned(s) == result[s] # Unset

-----------------------------------------------------------------------------
(* C1..C3, C7, C8: the shared contract of the four strategies *)

\* C1: every assignment a strategy returns from the empty assignment binds
\* exactly the Model's variables and satisfies every registered constraint
C1_ResultCompleteAndSatisfying ==
    \A s \in Strategies :
        result[s].status = "found" =>
            /\ DOMAIN result[s].assignment = Range(variables)
            /\ Cardinality(DOMAIN result[s].assignment) = Len(variables)
            /\ SatisfiesAll(result[s].assignment)

\* all four strategies returned an assignment on a Model with two constraints
\* of different kinds and a variable with more than one value
C1_Witness ==
    /\ Len(registered) = 2
    /\ registered[1].kind # registered[2].kind
    /\ \A s \in Strategies : result[s].status = "found"
    /\ \E v \in Range(variables) : Len(domains[v]) > 1

\* C2: a strategy returns null only when no complete assignment over the
\* Domains satisfies every registered constraint
C2_NullOnlyWhenNoSolution ==
    \A s \in Strategies : result[s] = Null => ~SolutionExists

\* C7: the strategies agree on satisfiability
C7_SameSatisfiability ==
    \A s, t \in Strategies :
        Returned(s) /\ Returned(t) => (result[s] = Null <=> result[t] = Null)

\* every frame binds one more variable than the frame below it
DepthBounded ==
    /\ Len(stack) <= Len(variables)
    /\ \A i \in 1..Len(stack) :
          /\ stack[i].first \in Range(variables) \ DOMAIN stack[i].assignment
          /\ Cardinality(DOMAIN stack[i].assignment) = i - 1
          /\ i > 1 => DOMAIN stack[i].assignment =
                        DOMAIN stack[i - 1].assignment \cup {stack[i - 1].first}

\* the place of the running call in its search tree: the loop positions of
\* the frames, outermost first, read as the digits of a number
RECURSIVE Power(_, _)
Power(b, n) == IF n = 0 THEN 1 ELSE b * Power(b, n - 1)

LongestDomain ==
    CHOOSE n \in {Len(domains[v]) : v \in Range(variables)} :
        \A v \in Range(variables) : Len(domains[v]) <= n

PositionBase == LongestDomain + 2

RECURSIVE PositionFrom(_, _)
PositionFrom(stk, i) ==
    IF i > Len(variables) THEN 0
    ELSE (IF i <= Len(stk) THEN stk[i].idx ELSE 0)
             * Power(PositionBase, Len(variables) - i)
         + PositionFrom(stk, i + 1)

Position == PositionFrom(stack, 1)

\* a running call can always take a step
CanStep == LoopHasValue \/ LoopIsOver

\* C3: every recursive call binds one more variable than its caller, so the
\* stack is never deeper than the number of variables; a running call can
\* always take a step and every step moves it forward in its finite search
\* tree, so a strategy that was started returns
C3_Terminates ==
    [][/\ DepthBounded'
       /\ Position' < Power(PositionBase, Len(variables))
       /\ strategy' # "none" => CanStep'
       /\ strategy # "none" /\ strategy' # "none" => Position' > Position]_vars

\* a strategy went as deep as there are variables and one returned null
C3_Witness ==
    /\ Len(stack) = Len(variables)
    /\ \E v \in Range(variables) : Len(domains[v]) > 1
    /\ \E s \in Strategies : result[s] = Null

\* C8: no step of a strategy changes the variable list, the Domains or the
\* variable-to-constraints index
C8_SearchLeavesModel ==
    [][phase' = "solving" =>
          UNCHANGED <<variables, domains, constraints>>]_vars

\* a forward-checking call that works on narrowed domains of its own
C8_Witness ==
    /\ usesForwardChecking(strategy)
    /\ consistencyChecks > 0
    /\ \E i \in 1..Len(stack) :
          /\ ~stack[i].shared
          /\ \E v \in Range(variables) :
                Len(stack[i].domains[v]) < Len(domains[v])

-----------------------------------------------------------------------------
(* C4: the generated constraint set and the rules of the grid *)

\* the sum of the cells of column j from row i down
RECURSIVE columnTotal(_, _, _)
columnTotal(a, j, i) ==
    IF i >= rows THEN 0 ELSE a[cellName(i, j)] + columnTotal(a, j, i + 1)

\* rows pairwise distinct, vertical and diagonal neighbours different, every
\* column summing to its target
TennerRules(a) ==
    /\ \A i \in 0..(rows - 1) : \A j, k \in 0..(COLUMNS - 1) :
          j # k => a[cellName(i, j)] # a[cellName(i, k)]
    /\ \A i \in 0..(rows - 2) : \A j, k \in 0..(COLUMNS - 1) :
          (j - k) \in {0 - 1, 0, 1} => a[cellName(i, j)] # a[cellName(i + 1, k)]
    /\ \A j \in 0..(COLUMNS - 1) : columnTotal(a, j, 0) = a[targetName(j)]

-----------------------------------------------------------------------------
(* C5, C6: satisfied of the two constraint classes *)

addends(c) == {c.variables[i] : i \in 1..(Len(c.variables) - 1)}

RECURSIVE sumOver(_, _)
sumOver(S, a) ==
    IF S = {} THEN 0
    ELSE LET v == CHOOSE x \in S : TRUE IN a[v] + sumOver(S \ {v}, a)

\* the target is assigned and the addends either are all assigned and sum to
\* something else, or those assigned already sum to more than the target
ColumnSumViolated(c, a) ==
    LET target == c.variables[Len(c.variables)]
        assigned == addends(c) \cap DOMAIN a
    IN  /\ target \in DOMAIN a
        /\ \/ assigned = addends(c) /\ sumOver(assigned, a) # a[target]
           \/ sumOver(assigned, a) > a[target]

\* C5: ColumnSumConstraint.satisfied is false exactly when the target is
\* assigned and either every addend is assigned and their sum differs from the
\* target, or the assigned addends sum to more than the target
C5_ColumnSumRule ==
    evaluation.done /\ evaluation.constraint.kind = "ColumnSum" =>
        (evaluation.value <=>
            ~ColumnSumViolated(evaluation.constraint, evaluation.assignment))

\* an addend is still unassigned and the assigned ones exceed the target
C5_Witness ==
    /\ evaluation.done
    /\ evaluation.constraint.kind = "ColumnSum"
    /\ ~evaluation.value
    /\ LET c == evaluation.constraint
           a == evaluation.assignment
       IN  /\ c.variables[Len(c.variables)] \in DOMAIN a
           /\ addends(c) \ DOMAIN a # {}
           /\ addends(c) \cap DOMAIN a # {}

\* some two assigned variables of the list hold the same value
SomePairEqual(c, a) ==
    \E i, j \in 1..Len(c.variables) :
        /\ i # j
        /\ c.variables[i] \in DOMAIN a
        /\ c.variables[j] \in DOMAIN a
        /\ a[c.variables[i]] = a[c.variables[j]]

\* the first variable of the list is assigned and some other assigned
\* variable of the list holds its value
OwnerPairEqual(c, a) ==
    /\ c.variables[1] \in DOMAIN a
    /\ \E i \in 2..Len(c.variables) :
          /\ c.variables[i] \in DOMAIN a
          /\ a[c.variables[i]] = a[c.variables[1]]

-----------------------------------------------------------------------------
(* C9, C10: what the seeder returns *)

targetVariables == {v \in Range(variables) : startsWithT(v)}

\* what forwardCheckingSearchWithMRV returned to the seeder
searchResult == result["forwardCheckingSearchWithMRV"].assignment

\* C9, as stated: every assignment the seeder returns binds every variable
\* of the Model and satisfies every registered constraint
C9_ReturnedCompleteAndSatisfying ==
    seeder.pc = "returned" =>
        /\ DOMAIN seeder.assignment = Range(variables)
        /\ SatisfiesAll(seeder.assignment)

\* C9, amended: every assignment the seeder returns binds every target
\* variable and a subset of the grid variables, and satisfies every
\* registered constraint
C9_ReturnedSatisfying ==
    seeder.pc = "returned" =>
        /\ targetVariables \subseteq DOMAIN seeder.assignment
        /\ DOMAIN seeder.assignment \subseteq Range(variables)
        /\ SatisfiesAll(seeder.assignment)

\* the seeder returned a grid of two rows with a cell filled and a cell empty
C9_Witness ==
    /\ seeder.pc = "returned"
    /\ rows > 1
    /\ \E v, w \in Range(variables) \ targetVariables :
          /\ v \in DOMAIN seeder.assignment
          /\ w \notin DOMAIN seeder.assignment

\* C10: the assignment the seeder returns is its pre-fill of grid variables
\* plus the search's values of the target variables, and the search's
\* result is a complete assignment that satisfies every registered constraint
\* and agrees with the returned assignment on every variable it binds
C10_PrefillsPlusTargetsExtendable ==
    [][seeder'.pc = "returned" /\ seeder.pc = "search" =>
          LET prefill == seeder.assignment
              returned == seeder'.assignment
          IN  /\ DOMAIN prefill \subseteq Range(variables) \ targetVariables
              /\ DOMAIN returned = DOMAIN prefill \cup targetVariables
              /\ \A v \in DOMAIN prefill : returned[v] = prefill[v]
              /\ \A t \in targetVariables : returned[t] = searchResult[t]
              /\ DOMAIN searchResult = Range(variables)
              /\ \A v \in Range(variables) :
                    searchResult[v] \in Range(seeder.savedDomains[v])
              /\ SatisfiesAll(searchResult)
              /\ \A v \in DOMAIN returned : searchResult[v] = returned[v]]_vars

\* the seeder returned a pre-filled cell and the targets of a grid of two
\* rows, and the search had filled in the cells the pre-fill passed over
C10_Witness ==
    /\ seeder.pc = "returned"
    /\ rows > 1
    /\ DOMAIN seeder.assignment \ targetVariables # {}
    /\ DOMAIN searchResult \ DOMAIN seeder.assignment # {}
    /\ \A t \in targetVariables : seeder.assignment[t] = searchResult[t]

-----------------------------------------------------------------------------
(* C11, C12: the seeder's attempts *)

\* some complete assignment over doms satisfies every registered constraint
RECURSIVE SolvableFrom(_, _, _)
SolvableFrom(vs, doms, a) ==
    IF vs = <<>> THEN SatisfiesAll(a)
    ELSE \E x \in Range(doms[Head(vs)]) :
             SolvableFrom(Tail(vs), doms, Bind(a, Head(vs), x))

SolvableOver(doms) == SolvableFrom(variables, doms, EmptyAssignment)

\* the attempt of the seeder that is running has a next step: a grid variable
\* to toss the coin for, the search to call, a step of the search, the
\* return, or the retry
SeederCanStep ==
    \/ seeder.pc = "prefill"
    \/ seeder.pc = "search" /\ strategy # "none" /\ CanStep
    \/ /\ seeder.pc = "search"
       /\ strategy = "none"
       /\ \/ result["forwardCheckingSearchWithMRV"].status = "found"
          \/ /\ result["forwardCheckingSearchWithMRV"] = Null
             /\ seeder.retries <= MaxRetries

firstDomains ==
    initializeDomains(variables, rows, Len(seeder.gridCellsDomain) - 1)

-----------------------------------------------------------------------------
(* C13, C14: mrv *)

\* the sizes of the Domains of the listed variables, in the order of the list
sizesOf(list) == [i \in 1..Len(list) |-> Len(domains[list[i]])]

\* the positions of the list whose variable has a Domain of the smallest size
smallestAt(list) ==
    {i \in 1..Len(list) :
        \A j \in 1..Len(list) : sizesOf(list)[i] <= sizesOf(list)[j]}

positionIn(list, v) == CHOOSE i \in 1..Len(list) : list[i] = v

\* C13: mrv returns a listed variable whose Domain is of the smallest size
\* among the listed ones, and which position of the list it returns is
\* decided by the sizes in the order of the list: every list with the same
\* sizes in the same order gets the same position
C13_MrvReturnsSmallest ==
    evaluation.done =>
        LET list == evaluation.unassigned IN
        /\ evaluation.value \in Range(list)
        /\ positionIn(list, evaluation.value) \in smallestAt(list)
        /\ \A other \in InjectiveSeqs(Range(variables), Len(list)) :
              sizesOf(other) = sizesOf(list) =>
                  positionIn(other, mrv(other)) =
                      positionIn(list, evaluation.value)

\* sizes 3, 1, 2 in this order: the variable of size 1 was returned
C13_Witness ==
    /\ evaluation.done
    /\ Len(evaluation.unassigned) = 3
    /\ sizesOf(evaluation.unassigned) = <<3, 1, 2>>
    /\ evaluation.value = evaluation.unassigned[2]

\* the least / the greatest element of a non-empty set of positions
firstOf(S) == CHOOSE i \in S : \A j \in S : i <= j
lastOf(S) == CHOOSE i \in S : \A j \in S : j <= i

\* C14, as stated: of the variables that tie for the smallest size mrv
\* returns the one that comes first in the list
C14_FirstOfTiesWins ==
    evaluation.done =>
        evaluation.value =
            evaluation.unassigned[firstOf(smallestAt(evaluation.unassigned))]

\* C14, amended: of the variables that tie for the smallest size mrv returns
\* the one that comes last in the list
C14_LastOfTiesWins ==
    evaluation.done =>
        evaluation.value =
            evaluation.unassigned[lastOf(smallestAt(evaluation.unassigned))]

\* three listed variables, the first and the last tie for the smallest size
C14_Witness ==
    /\ evaluation.done
    /\ Len(evaluation.unassigned) = 3
    /\ smallestAt(evaluation.unassigned) = {1, 3}
    /\ evaluation.value = evaluation.unassigned[3]

-----------------------------------------------------------------------------
(* C15: the consistency-check counter *)

RECURSIVE sumSeq(_)
sumSeq(q) == IF q = <<>> THEN 0 ELSE Head(q) + sumSeq(Tail(q))

\* no more calls of consistent than this are made by forwardChecking for the
\* top frame: one for every value of every unassigned variable of every
\* constraint of the variable just bound
mostProbes(f) ==
    LET cs == constraints[f.first]
        bound == DOMAIN f.assignment \cup {f.first}
        ofConstraint(c) ==
            sumSeq([j \in 1..Len(c.variables) |->
                       IF c.variables[j] \in bound THEN 0
                       ELSE Len(frameDomains(f)[c.variables[j]])])
    IN  sumSeq([i \in 1..Len(cs) |-> ofConstraint(cs[i])])

\* C15: the one call of consistent that an iteration of a strategy's loop
\* makes adds exactly one to consistencyChecks, whether it returns true or
\* false, forward checking adds one for each of its calls, and no step of the
\* engine (a search step, a return, the start of a strategy, the registration
\* of a constraint) lowers the counter or changes it otherwise
C15_CounterCountsCalls ==
    [][IF LoopHasValue
       THEN LET f == stack[Len(stack)]
                value == frameDomains(f)[f.first][f.idx]
                ok == consistent(f.first, Bind(f.assignment, f.first, value))
            IN  IF ok /\ usesForwardChecking(strategy)
                THEN /\ consistencyChecks' >= consistencyChecks + 1
                     /\ consistencyChecks' <=
                            consistencyChecks + 1 + mostProbes(f)
                ELSE consistencyChecks' = consistencyChecks + 1
       ELSE consistencyChecks' = consistencyChecks]_vars

\* backtrackingSearch alone has run and found an assignment after calls of
\* consistent that returned true and calls that returned false
C15_Witness ==
    /\ result["backtrackingSearch"].status = "found"
    /\ result["backtrackingSearchWithMRV"] = Unset
    /\ strategy = "none"
    /\ consistencyChecks > Len(variables)
    /\ registered # <<>>

-----------------------------------------------------------------------------
(* C16: setup *)

\* the constraint lists after c has been appended to the list of every
\* variable it references
appendedEverywhere(c) ==
    [v \in DOMAIN constraints |->
        IF v \in Range(c.variables) THEN Append(constraints[v], c)
        ELSE constraints[v]]

referencesForeign(c) == ~(Range(c.variables) \subseteq Range(variables))

\* C16: the constructor throws if and only if some listed variable has no
\* entry in the Domain mapping; addConstraint throws if and only if the
\* constraint references a variable that is not in the Model's variable list,
\* and otherwise appends the constraint to the list of every variable it
\* references
C16_SetupRejectsIllFormed ==
    [][/\ phase = "new" =>
             /\ phase' = "aborted" <=>
                    \E v \in Range(evaluation.variables) :
                        v \notin DOMAIN evaluation.domains
             /\ phase' # "aborted" =>
                    /\ phase' = "setup"
                    /\ variables' = evaluation.variables
                    /\ domains' = evaluation.domains
                    /\ constraints' = [v \in Range(evaluation.variables) |-> <<>>]
       /\ phase = "setup" =>
             \A c \in Range(ConstraintPool) :
                 LET st == addConstraintLoop(c, 1, [threw |-> FALSE,
                                                    constraints |-> constraints])
                 IN  /\ st.threw <=> referencesForeign(c)
                     /\ ~st.threw => st.constraints = appendedEverywhere(c)
       /\ phase = "setup" /\ phase' = "setup" =>
             /\ Len(registered') = Len(registered) + 1
             /\ LET c == registered'[Len(registered')] IN
                /\ registered' = Append(registered, c)
                /\ ~referencesForeign(c)
                /\ constraints' = appendedEverywhere(c)
       /\ phase = "setup" /\ phase' = "aborted" =>
             /\ registered' = registered
             /\ \E c \in Range(ConstraintPool) :
                   /\ referencesForeign(c)
                   /\ \A v \in DOMAIN constraints :
                         constraints'[v] \in
                             {constraints[v], Append(constraints[v], c)}]_vars

\* addConstraint threw on a Model that had taken a constraint before
C16_Witness ==
    /\ phase = "aborted"
    /\ evaluation.done
    /\ registered # <<>>
    /\ Foreign \in DOMAIN domains

-----------------------------------------------------------------------------
(* C17: a grid filled in but for one cell *)

\* the values of the missing cell's Domain that, with the numbers of the
\* other cells, are consistent for the missing cell
fittingValues ==
    {x \in Range(domains[evaluation.missing]) :
        consistent(evaluation.missing,
                   Bind(evaluation.text, evaluation.missing, x))}

\* every strategy that has returned has returned an assignment, and it gives
\* the missing cell the one fitting value
allBindTheFittingValue ==
    \A s \in Strategies :
        Returned(s) =>
            /\ result[s].status = "found"
            /\ {result[s].assignment[evaluation.missing]} = fittingValues

-----------------------------------------------------------------------------
(* C18: the assignments the strategies recurse on *)

\* the variable whose binding made the assignment of frame i
justBound(i) == stack[i - 1].first

\* C18: every assignment a strategy that started from the empty assignment
\* has recursed on satisfies every registered constraint, those that do not
\* reference the variable bound last included
C18_RecursedAssignmentsSatisfyAll ==
    \A i \in 1..Len(stack) : SatisfiesAll(stack[i].assignment)

\* a call two levels down, in a Model with a constraint that references the
\* variable bound first but not the one bound last, and that has a variable
\* with more than one value
C18_Witness ==
    /\ Len(stack) >= 3
    /\ \E k \in 1..Len(registered) :
          /\ justBound(Len(stack)) \notin Range(registered[k].variables)
          /\ justBound(2) \in Range(registered[k].variables)
    /\ \E v \in Range(variables) : Len(domains[v]) > 1

-----------------------------------------------------------------------------
(* C19: the strategies started from an assignment of the caller's *)

\* C19: every assignment a strategy returns when started from a non-empty
\* assignment of the caller's satisfies every registered constraint, those
\* whose variables the caller bound included
C19_SuppliedResultSatisfiesAll ==
    \A s \in Strategies :
        result[s].status = "found" => SatisfiesAll(result[s].assignment)

-----------------------------------------------------------------------------
(* C20: the variable forwardCheckingSearchWithMRV selects *)

\* C20: the variable a call of forwardCheckingSearchWithMRV selects has the
\* fewest values in the domains the call was given, among the variables its
\* assignment leaves unbound
C20_FewestInLocalDomains ==
    strategy = "forwardCheckingSearchWithMRV" =>
        \A i \in 1..Len(stack) :
            \A v \in Range(variables) \ DOMAIN stack[i].assignment :
                Len(frameDomains(stack[i])[stack[i].first])
                    <= Len(frameDomains(stack[i])[v])

-----------------------------------------------------------------------------
(* C21: forward checking against plain backtracking, static variable order *)

\* C21: on the same Model, from the empty assignment, forwardCheckingSearch
\* and backtrackingSearch return the same result: both null, or the same
\* assignment
C21_ForwardCheckingSameResult ==
    Returned("backtrackingSearch") /\ Returned("forwardCheckingSearch") =>
        result["forwardCheckingSearch"] = result["backtrackingSearch"]

-----------------------------------------------------------------------------
(* C22: a ColumnSum violation and the assignments that extend it *)

\* C22: when ColumnSumConstraint.satisfied is false on an assignment, it is
\* false on every assignment that binds further variables to values of their
\* Domains
C22_ColumnSumViolationIsFinal ==
    evaluation.done /\ ~evaluation.value => ~evaluation.extended

-----------------------------------------------------------------------------
(* C23..C25: what one call of forwardChecking does *)

\* the constraints of the variable just bound that it owns (AllDifferent, as
\* first variable) or that are ColumnSum constraints
ownedOrColumnSum(variable) ==
    {c \in Range(constraints[variable]) :
        \/ c.kind = "ColumnSum"
        \/ c.kind = "AllDifferent" /\ Head(c.variables) = variable}

\* the unassigned variables of those constraints
neighborsOf(variable, assignment) ==
    UNION {Range(c.variables) : c \in ownedOrColumnSum(variable)}
        \ DOMAIN assignment

\* the values of doms[neighbor], in order, that are consistent for neighbor
\* when added to the assignment
consistentValues(neighbor, assignment, doms) ==
    SelectSeq(doms[neighbor],
              LAMBDA v : consistent(neighbor, Bind(assignment, neighbor, v)))

\* C23: forwardChecking returns false exactly when every value of some
\* examined neighbor is inconsistent; when it returns true every local
\* domain is a subset of the one on entry, an examined neighbor has lost
\* exactly its inconsistent values, and the other domains are unchanged
C23_PrunesExactlyInconsistentValues ==
    evaluation.done =>
        LET e == evaluation
            examined == neighborsOf(e.variable, e.assignment)
        IN  /\ ~e.ok <=>
                  \E n \in examined :
                      consistentValues(n, e.assignment, domains) = <<>>
            /\ e.ok =>
                  \A v \in Range(variables) :
                      /\ Range(e.domainsOut[v]) \subseteq Range(domains[v])
                      /\ e.domainsOut[v] =
                            IF v \in examined
                            THEN consistentValues(v, e.assignment, domains)
                            ELSE domains[v]

\* forwardChecking returned true after removing some but not all values of a
\* neighbor, in a Model with another variable it did not examine
C23_Witness ==
    /\ evaluation.done
    /\ evaluation.ok
    /\ \E n \in neighborsOf(evaluation.variable, evaluation.assignment) :
          /\ Len(evaluation.domainsOut[n]) < Len(domains[n])
          /\ Len(evaluation.domainsOut[n]) > 0
    /\ \E v \in Range(variables) \ DOMAIN evaluation.assignment :
          v \notin neighborsOf(evaluation.variable, evaluation.assignment)

\* the calls of consistent forwardChecking makes at most: one for every value
\* of every unassigned variable of every constraint it propagates through
probesThrough(cs, assignment) ==
    sumSeq([i \in 1..Len(cs) |->
        IF cs[i] \in ownedOrColumnSum(evaluation.variable)
        THEN sumSeq([j \in 1..Len(cs[i].variables) |->
                 IF cs[i].variables[j] \in DOMAIN assignment THEN 0
                 ELSE Len(domains[cs[i].variables[j]])])
        ELSE 0])

\* C24: forwardChecking examines the unassigned variables of the AllDifferent
\* constraints whose first variable is the variable just bound and of every
\* ColumnSum constraint of that variable, and nothing else: an AllDifferent
\* constraint of which the variable is not the first causes no call of
\* consistent and no change of a domain
C24_PropagatesFromOwnerOnly ==
    evaluation.done =>
        LET e == evaluation
            examined == neighborsOf(e.variable, e.assignment)
        IN  /\ e.checks = 0 <=> examined = {}
            /\ e.checks <= probesThrough(constraints[e.variable], e.assignment)
            /\ e.ok => e.checks >= Cardinality(examined)
            /\ \A v \in Range(variables) \ examined :
                  e.domainsOut[v] = domains[v]

\* the variable bound is in an AllDifferent constraint it does not own, whose
\* owner is unassigned and has a value that repeats the variable's, and in a
\* ColumnSum constraint through which a neighbor was examined
C24_Witness ==
    /\ evaluation.done
    /\ evaluation.checks > 0
    /\ \E c \in Range(constraints[evaluation.variable]) :
          /\ c.kind = "AllDifferent"
          /\ Head(c.variables) # evaluation.variable
          /\ Head(c.variables) \notin DOMAIN evaluation.assignment
          /\ Head(c.variables) \notin
                 neighborsOf(evaluation.variable, evaluation.assignment)
          /\ evaluation.assignment[evaluation.variable]
                 \in Range(domains[Head(c.variables)])
    /\ \E c \in Range(constraints[evaluation.variable]) : c.kind = "ColumnSum"

\* C25: when forwardChecking returns, true or false, the assignment it was
\* given binds the variables it bound on entry, to the same values
C25_AssignmentAsOnEntry ==
    evaluation.done => evaluation.assignmentOut = evaluation.assignment

\* forwardChecking returned false after it had tried values of a neighbor
C25_Witness ==
    /\ evaluation.done
    /\ ~evaluation.ok
    /\ evaluation.checks > 1
    /\ evaluation.assignmentOut = evaluation.assignment

-----------------------------------------------------------------------------
(* C26: the values the seeder pre-fills *)

\* the assignment as it was when the seeder had just bound v: the bindings
\* of the grid variables up to v, in the order of the Model
whenChosen(v) ==
    LET gs == gridVariables(variables)
        at == CHOOSE i \in 1..Len(gs) : gs[i] = v
    IN  [w \in {gs[i] : i \in 1..at} \cap DOMAIN seeder.assignment |->
            seeder.assignment[w]]

\* during step 1, every bound variable is a grid variable, its value is one
\* of candidates[v], and it was consistent for v when it was chosen
prefilledFrom(candidates) ==
    seeder.pc = "prefill" =>
        \A v \in DOMAIN seeder.assignment :
            /\ ~startsWithT(v)
            /\ v \in Range(gridVariables(variables))
            /\ seeder.assignment[v] \in candidates[v]
            /\ consistent(v, whenChosen(v))

ownDomain == [v \in Range(variables) |-> Range(domains[v])]
passedDomain == [v \in Range(variables) |-> Range(seeder.gridCellsDomain)]

\* C26, as stated: every value pre-filled in step 1 is a value of the
\* variable's own Domain in the Model and was consistent for the variable
\* when chosen, and no target is pre-filled
C26_PrefillFromOwnDomain == prefilledFrom(ownDomain)

\* C26, amended: every value pre-filled in step 1 is a value of the
\* gridCellsDomain array the seeder was called with and was consistent for
\* the variable when chosen, and no target is pre-filled
C26_PrefillFromGridCellsDomain == prefilledFrom(passedDomain)

\* two cells are pre-filled, one of them with a value that its own Domain
\* does not hold
C26_Witness ==
    /\ seeder.pc = "prefill"
    /\ Cardinality(DOMAIN seeder.assignment) >= 2
    /\ \E v \in DOMAIN seeder.assignment :
          seeder.assignment[v] \notin Range(domains[v])

-----------------------------------------------------------------------------
(* C27: the Domains between the seeder's narrowing and its retry or return *)

\* the variables the seeder bound in step 1: at its return the assignment
\* holds the targets of the search result as well
prefilled == DOMAIN seeder.assignment \ targetVariables

\* C27: from the narrowing until the seeder retries or returns, and after it
\* has returned an assignment, the Domain of every pre-filled variable is the
\* one-element sequence of its value and every other Domain is the one the
\* snapshot holds
C27_DomainsStayNarrowed ==
    seeder.pc \in {"search", "returned"} =>
        /\ DOMAIN domains = Range(variables)
        /\ \A v \in Range(variables) :
              domains[v] = IF v \in prefilled THEN <<seeder.assignment[v]>>
                           ELSE seeder.savedDomains[v]

\* the seeder has returned after a search that made calls of consistent; a
\* pre-filled cell had more than one value before, and another cell was left
\* open
C27_Witness ==
    /\ seeder.pc = "returned"
    /\ consistencyChecks > 0
    /\ \E v \in prefilled :
          /\ Len(seeder.savedDomains[v]) > 1
          /\ domains[v] = <<seeder.assignment[v]>>
    /\ \E v \in Range(gridVariables(variables)) : v \notin prefilled

-----------------------------------------------------------------------------
(* C28: the seeder on a Model without a solution *)

\* the Domains the Model had when the seeder was first called, on a grid
\* with typed cells
typedDomains ==
    initializePinned(variables, (Len(variables) \div COLUMNS) - 1,
                     Len(seeder.gridCellsDomain) - 1, evaluation.text)

\* the Domains the searches of the seeder can run on: a grid variable may
\* have been narrowed to any value of gridCellsDomain
reachableDomains ==
    [v \in Range(variables) |->
        IF startsWithT(v) THEN typedDomains[v]
        ELSE seeder.gridCellsDomain
                 \o SelectSeq(typedDomains[v],
                       LAMBDA x : x \notin Range(seeder.gridCellsDomain))]

\* the seeder has not returned, no search of its has found an assignment, and
\* an attempt in step 1 works on the Domains of the first call
retriesOnly ==
    /\ seeder.pc # "returned"
    /\ result["forwardCheckingSearchWithMRV"].status # "found"
    /\ seeder.pc = "prefill" => domains = typedDomains

-----------------------------------------------------------------------------
(* C29: the index after calls of addConstraint, those that throw included *)

\* C29: every constraint in the index of any variable references only
\* variables of the Model's variable list, whatever calls of addConstraint
\* were made and whether they threw
C29_IndexedConstraintsAreWellFormed ==
    phase \in {"setup", "aborted", "solving"} =>
        \A v \in DOMAIN constraints :
            \A k \in 1..Len(constraints[v]) :
                Range(constraints[v][k].variables) \subseteq Range(variables)

-----------------------------------------------------------------------------
(* C30: AllDifferentConstraint.satisfied compares the owner with the others *)

=============================================================================
